---- MODULE Spec2Model ----
(***************************************************************************)
(* Model of the backend process supervisor of the Tauri shell:             *)
(*   frontend/src-tauri/src/commands.rs  start_backend, stop_backend,      *)
(*                                       check_backend_status              *)
(*   frontend/src-tauri/src/lib.rs       run (the auto-start task)         *)
(* The commands run as concurrent async tasks that share one               *)
(* Arc<Mutex<Option<Child>>>.  Every critical section is two steps: the    *)
(* task acquires the mutex, then runs the block and drops the guard.       *)
(* Spec         the three commands and the auto-start task                 *)
(* PumpSpec     the commands of one UI slot beside the reader tasks of     *)
(*              the children; FairPumpSpec adds that an EOF is read        *)
(* ReaderSpec   one reader task alone, on the lines its reader yields      *)
(***************************************************************************)
EXTENDS Integers, FiniteSets, Sequences, TLC

\* Bound: how many child processes the OS lets the supervisor create.
MaxChildren == 2

\* BackendStatus.port is the literal 8000 in every constructor.
PORT == 8000

\* The auto-start task of run() and two UI invocation slots.
Orch == "orch"
Tasks == {"orch", "ui1", "ui2"}

Children == 1..MaxChildren

\* Exit codes a child can end with on its own.
ExitCodes == {1}

\* Exit code of a child ended by Child::kill.
KilledCode == 1

\* Mutex owner when nobody holds the guard.
Free == "free"

VARIABLES
  process,    \* the Option<Child> inside the mutex: 0 is None, c is Some(c)
  lock,       \* task holding the MutexGuard, or Free
  pc,         \* position of every task
  child,      \* start_backend's local `child`: 0 before the spawn
  procs,      \* OS view of every child: st, exit code, kill() outcome
  pump,       \* per child, the streams a reader task was attached to
  windows,    \* cfg!(windows) of the build
  ret,        \* what the latest step returned to its caller, NoRet if nothing
  backend_exe,\* the path the latest step resolved, NoExe if it resolved none
  logged,     \* the log records the latest step wrote, in order
  stopped,    \* per start call: a stop_backend ran its block since it began
  started     \* a start returned Ok and no stop_backend ran its block since

vars == <<process, lock, pc, child, procs, pump, windows, ret, backend_exe,
          logged, stopped, started>>

\* One reader task looked at on its own: the for loop over reader.lines().
VARIABLES
  stream,     \* the pipe the task reads: "stdout" or "stderr"
  reader,     \* the items reader.lines() yields, in order, ahead of the EOF
  nread,      \* how many of them the loop has taken
  records,    \* the log records the loop has written, in order
  reading     \* the loop has not ended

pvars == <<stream, reader, nread, records, reading>>

Streams == {"stdout", "stderr"}

NoProc == [st |-> "unborn", code |-> 0, sig |-> "no"]

Spawned == {c \in Children : procs[c].st # "unborn"}

\* ---- return values ----------------------------------------------------
\* Besides the value itself a return carries what the call did on its way:
\*   some    the slot was Some when the returning block looked at it
\*   polled  the child try_wait was called on in that block, 0 if none
\*   poll    what that try_wait answered, "none" if it was not called
\*   again   a start had already returned Ok, with no stop since
\* Ok(BackendStatus { running, port: 8000 })
OkStatus(op, running) ==
  [op |-> op, tag |-> "Ok", running |-> running, port |-> PORT,
   msg |-> "", status |-> 0, some |-> FALSE, polled |-> 0, poll |-> "none",
   again |-> FALSE]

\* Ok(()) of stop_backend
OkUnit ==
  [op |-> "stop", tag |-> "Ok", running |-> FALSE, port |-> 0,
   msg |-> "", status |-> 0, some |-> FALSE, polled |-> 0, poll |-> "none",
   again |-> FALSE]

\* Err(String); status is the exit status formatted into the message
ErrMsg(op, msg, status) ==
  [op |-> op, tag |-> "Err", running |-> FALSE, port |-> 0,
   msg |-> msg, status |-> status, some |-> FALSE, polled |-> 0,
   poll |-> "none", again |-> FALSE]

NoRet ==
  [op |-> "none", tag |-> "none", running |-> FALSE, port |-> 0,
   msg |-> "", status |-> 0, some |-> FALSE, polled |-> 0, poll |-> "none",
   again |-> FALSE]

\* r, returned from a block that found Some(c) in the slot.
Found(r) == [r EXCEPT !.some = TRUE]

\* r, returned from a block whose try_wait on child c answered o.
Polled(r, c, o) == [r EXCEPT !.some = TRUE, !.polled = c, !.poll = o]

\* No path was resolved.
NoExe == [path |-> "unset", resources |-> FALSE, fallback |-> FALSE]

\* No reader task is looked at.
NoReader ==
  /\ stream = "stdout"
  /\ reader = <<>>
  /\ nread = 0
  /\ records = <<>>
  /\ reading = FALSE

\* app.manage(BackendProcess::default()): an empty slot, nothing spawned.
Managed ==
  /\ process = 0
  /\ lock = Free
  /\ pc = [t \in Tasks |-> IF t = Orch THEN "o_sleep" ELSE "idle"]
  /\ child = [t \in Tasks |-> 0]
  /\ procs = [c \in Children |-> NoProc]
  /\ pump = [c \in Children |-> {}]
  /\ windows \in BOOLEAN
  /\ ret = NoRet
  /\ backend_exe = NoExe
  /\ logged = <<>>
  /\ stopped = [t \in Tasks |-> FALSE]
  /\ started = FALSE

Init == Managed /\ NoReader

\* Positions inside start_backend.
StartPcs == {"s_check", "s_spawn", "s_lock2", "s_store", "s_sleep", "s_poll"}

\* What the auto-start task logs about the result r of its start_backend.
OrchLog(r) ==
  IF r.tag = "Ok" THEN <<"info: Backend started automatically">>
                  ELSE <<"error: Failed to auto-start backend">>

\* A command returns r to its caller, having logged lines.  The auto-start
\* task logs the result of its start_backend call and ends; a UI slot
\* becomes free again.
ReturnFrom(t, r, lines, exe) ==
  /\ ret' = r
  /\ backend_exe' = exe
  /\ pc' = [pc EXCEPT ![t] = IF t = Orch THEN "done" ELSE "idle"]
  /\ child' = [child EXCEPT ![t] = 0]
  /\ logged' = IF t = Orch /\ r.op = "start" THEN lines \o OrchLog(r)
                                             ELSE lines
  /\ UNCHANGED pvars

\* The same of a command that resolved no path on its way.
Return(t, r, lines) == ReturnFrom(t, r, lines, NoExe)

\* Bookkeeping when a start_backend call returns r, having resolved exe.
StartReturnsFrom(t, r, lines, exe) ==
  /\ ReturnFrom(t, [r EXCEPT !.again = started], lines, exe)
  /\ started' = (started \/ (r.tag = "Ok" /\ ~stopped[t]))
  /\ stopped' = [stopped EXCEPT ![t] = FALSE]

StartReturns(t, r, lines) == StartReturnsFrom(t, r, lines, NoExe)

\* A step that returns nothing to a caller, writes lines to the log and
\* has resolved exe.
SilentFrom(lines, exe) ==
  /\ ret' = NoRet
  /\ logged' = lines
  /\ backend_exe' = exe
  /\ UNCHANGED pvars

Silent(lines) == SilentFrom(lines, NoExe)

\* state.lock().unwrap(): take the mutex when it is free.
Acquire(t, from, to) ==
  /\ pc[t] = from
  /\ lock = Free
  /\ lock' = t
  /\ pc' = [pc EXCEPT ![t] = to]
  /\ Silent(<<>>)
  /\ UNCHANGED <<process, child, procs, pump, windows, stopped,
                 started>>

\* Child::try_wait on child c: the results the OS can give.
TryWait(c) ==
  {"Err"} \cup (IF procs[c].st = "exited" THEN {"Exited"} ELSE {"Running"})

\* ---- the UI invokes a command ------------------------------------------
\* Each command starts by locking the mutex; a UI slot that waits for the
\* mutex is a slot whose call has not begun its first block.
CallStart(t) == t # Orch /\ Acquire(t, "idle", "s_check")

CallStop(t) == t # Orch /\ Acquire(t, "idle", "t_take")

CallStatus(t) == t # Orch /\ Acquire(t, "idle", "c_poll")

\* ---- lib.rs: the auto-start task ---------------------------------------
\* Candidate with the fallback path tried first.
Candidate_FallbackFirst(a) == "fallback"

\* The candidate a probe settles on: the resources one when it exists,
\* else the one next to the executable.
Candidate(a) == IF a THEN "resources" ELSE "fallback"

\* Whether the candidate settled on exists.
CandidateExists(a, b) == IF a THEN TRUE ELSE b

\* What a probe of the two candidates settles on, with what exists()
\* answered: a for resources/backend.exe, b for backend.exe.
Resolved(a, b) == [path |-> Candidate(a), resources |-> a, fallback |-> b]

\* OrchProbe that calls start_backend whatever the probe found.
OrchProbe_Always ==
  /\ pc[Orch] = "o_sleep"
  /\ \E exe \in {IF windows /\ dirOk /\ CandidateExists(a, b)
                    THEN Resolved(a, b) ELSE NoExe :
                  dirOk \in BOOLEAN, a \in BOOLEAN, b \in BOOLEAN} :
       /\ pc' = [pc EXCEPT ![Orch] = "o_call"]
       /\ SilentFrom(<<"info: Found backend executable">>, exe)
  /\ UNCHANGED <<process, lock, child, procs, pump, windows, stopped, started>>

\* After its 1 s sleep the task probes the two candidate paths and calls
\* start_backend only when one of them exists.
OrchProbe ==
  /\ pc[Orch] = "o_sleep"
  /\ \E exe \in {IF windows /\ dirOk /\ CandidateExists(a, b)
                    THEN Resolved(a, b) ELSE NoExe :
                  dirOk \in BOOLEAN, a \in BOOLEAN, b \in BOOLEAN} :
       IF exe # NoExe
         THEN /\ pc' = [pc EXCEPT ![Orch] = "o_call"]
              /\ SilentFrom(<<"info: Found backend executable">>, exe)
         ELSE /\ pc' = [pc EXCEPT ![Orch] = "done"]
              /\ SilentFrom(<<"warn: Backend executable not found">>, exe)
  /\ UNCHANGED <<process, lock, child, procs, pump, windows, stopped, started>>

\* The auto-start task's call of start_backend.
OrchStart == Acquire(Orch, "o_call", "s_check")

\* ---- start_backend -----------------------------------------------------
\* StartCheck without the early return: every call goes on to spawn.
StartCheck_NoGuard(t) ==
  /\ pc[t] = "s_check"
  /\ lock' = Free
  /\ pc' = [pc EXCEPT ![t] = "s_spawn"]
  /\ Silent(<<>>)
  /\ UNCHANGED <<child, stopped, started>>
  /\ UNCHANGED <<process, procs, pump, windows>>

\* "Check if already running": return at once when the slot is Some.
StartCheck(t) ==
  /\ pc[t] = "s_check"
  /\ lock' = Free
  /\ IF process # 0
       THEN StartReturns(t, Found(OkStatus("start", TRUE)), <<>>)
       ELSE /\ pc' = [pc EXCEPT ![t] = "s_spawn"]
            /\ Silent(<<>>)
            /\ UNCHANGED <<child, stopped, started>>
  /\ UNCHANGED <<process, procs, pump, windows>>

StartInfo == <<"info: Starting backend from", "info: Data directory">>

\* SpawnFailed with the reader tasks set up before the result of spawn is
\* looked at.
SpawnFailed_Pumps(t, exe) ==
  /\ StartReturnsFrom(t, ErrMsg("start", "Failed to start backend", 0),
                      StartInfo \o <<"error: Failed to start backend">>, exe)
  /\ pump' = [c \in Children |->
                IF c = Cardinality(Spawned) + 1 THEN Streams ELSE pump[c]]
  /\ UNCHANGED procs

\* Command::spawn failed: the map_err closure logs and `?` returns.
SpawnFailed(t, exe) ==
  /\ StartReturnsFrom(t, ErrMsg("start", "Failed to start backend", 0),
                      StartInfo \o <<"error: Failed to start backend">>, exe)
  /\ UNCHANGED <<procs, pump>>

\* A return of start_backend ahead of the path resolution: nothing was
\* created.
StartFails(t, msg) ==
  /\ StartReturns(t, ErrMsg("start", msg, 0), <<>>)
  /\ UNCHANGED <<procs, pump>>

\* A return of start_backend between the path resolution and the spawn:
\* nothing was created.  The "not found" message has the path in it.
StartFailsFrom(t, msg, exe) ==
  /\ StartReturnsFrom(t, ErrMsg("start", msg, 0), <<>>, exe)
  /\ UNCHANGED <<procs, pump>>

\* Command::spawn succeeded: one reader task per piped stream, and the
\* call goes on to store the child.
SpawnOk(t, exe) ==
  /\ Cardinality(Spawned) < MaxChildren
  /\ LET c == Cardinality(Spawned) + 1 IN
       /\ procs' = [procs EXCEPT ![c] =
                      [st |-> "running", code |-> 0, sig |-> "no"]]
       /\ pump' = [pump EXCEPT ![c] = Streams]
       /\ child' = [child EXCEPT ![t] = c]
  /\ pc' = [pc EXCEPT ![t] = "s_lock2"]
  /\ SilentFrom(StartInfo, exe)
  /\ UNCHANGED <<stopped, started>>

\* Path resolution, the exists() test, create_dir_all of the data dir, then
\* Command::spawn.  The inputs: dirOk, current_exe() has a parent; a and b,
\* the resources and the fallback candidate exist; mk, create_dir_all
\* succeeds; ok, the OS creates the process.
StartSpawn(t) ==
  /\ pc[t] = "s_spawn"
  /\ IF ~windows
       THEN StartFails(t, "unsupported platform")
       ELSE \E dirOk \in BOOLEAN :
              IF ~dirOk
                THEN StartFails(t, "no executable directory")
                ELSE \E a \in BOOLEAN, b \in BOOLEAN :
                       IF ~CandidateExists(a, b)
                         THEN StartFailsFrom(t, "Backend executable not found",
                                             Resolved(a, b))
                         ELSE \E mk \in BOOLEAN :
                                IF ~mk
                                  THEN StartFailsFrom(t,
                                                      "create data dir failed",
                                                      Resolved(a, b))
                                  ELSE \E ok \in BOOLEAN :
                                         IF ~ok
                                           THEN SpawnFailed(t, Resolved(a, b))
                                           ELSE SpawnOk(t, Resolved(a, b))
  /\ UNCHANGED <<process, lock, windows>>

StartLock2(t) == Acquire(t, "s_lock2", "s_store")

\* StartStore with the guard kept in scope: the mutex stays locked over the
\* sleep that follows.
StartStore_HoldsLock(t) ==
  /\ pc[t] = "s_store"
  /\ process' = child[t]
  /\ lock' = lock
  /\ pc' = [pc EXCEPT ![t] = "s_sleep"]
  /\ Silent(<<>>)
  /\ UNCHANGED <<child, procs, pump, windows, stopped, started>>

\* "Store process handle in app state": *process = Some(child).
StartStore(t) ==
  /\ pc[t] = "s_store"
  /\ process' = child[t]
  /\ lock' = Free
  /\ pc' = [pc EXCEPT ![t] = "s_sleep"]
  /\ Silent(<<>>)
  /\ UNCHANGED <<child, procs, pump, windows, stopped, started>>

\* The 2 s sleep is over and the task takes the mutex again.
StartLock3(t) == Acquire(t, "s_sleep", "s_poll")

StartedOk == <<"info: Backend process started successfully">>

\* StartPoll that empties the slot when it finds the child exited.
StartPoll_Clear(t) ==
  /\ pc[t] = "s_poll"
  /\ lock' = Free
  /\ IF process # 0
       THEN \E o \in TryWait(process) :
              IF o = "Exited"
                THEN /\ StartReturns(t, Polled(ErrMsg("start",
                                                      "exited immediately",
                                                      procs[process].code),
                                               process, o), <<>>)
                     /\ process' = 0
                ELSE /\ StartReturns(t, Polled(OkStatus("start", TRUE),
                                               process, o), StartedOk)
                     /\ UNCHANGED process
       ELSE /\ StartReturns(t, OkStatus("start", TRUE), StartedOk)
            /\ UNCHANGED process
  /\ UNCHANGED <<procs, pump, windows>>

\* "Check if process is still alive": only Ok(Some(status)) of try_wait on
\* the child now in the slot is an error; everything else falls through.
StartPoll(t) ==
  /\ pc[t] = "s_poll"
  /\ lock' = Free
  /\ IF process # 0
       THEN \E o \in TryWait(process) :
              IF o = "Exited"
                THEN StartReturns(t, Polled(ErrMsg("start", "exited immediately",
                                                   procs[process].code),
                                            process, o), <<>>)
                ELSE StartReturns(t, Polled(OkStatus("start", TRUE), process,
                                         o), StartedOk)
       ELSE StartReturns(t, OkStatus("start", TRUE), StartedOk)
  /\ UNCHANGED <<process, procs, pump, windows>>

\* ---- stop_backend ------------------------------------------------------
\* Kill with the signal left out: the child is taken but never signalled.
Kill_NotSent(c, k) == procs

\* Child::kill on child c with OS answer k.
Kill(c, k) ==
  [procs EXCEPT ![c] =
     [st |-> IF k = "ok" THEN "exited" ELSE procs[c].st,
      code |-> IF k = "ok" /\ procs[c].st = "running"
                 THEN KilledCode ELSE procs[c].code,
      sig |-> k]]

\* StopEmpty that treats "nothing to stop" as an error.
StopEmpty_Err(t) ==
  /\ Return(t, ErrMsg("stop", "Backend is not running", 0), <<>>)
  /\ UNCHANGED procs

\* take() gave None: nothing to kill, Ok(()).
StopEmpty(t) ==
  /\ Return(t, OkUnit, <<>>)
  /\ UNCHANGED procs

\* take() gave Some(c): kill it; `?` turns a refusal into the Err.
StopSome(t, c) ==
  \E k \in {"ok", "refused"} :
    /\ procs' = Kill(c, k)
    /\ Return(t, Found(IF k = "ok"
                         THEN OkUnit
                         ELSE ErrMsg("stop", "Failed to stop backend", 0)),
              <<>>)

\* StopTake that looks at the child in place (as_mut) and takes it out of
\* the slot only once the kill went through.
StopTake_KeepOnError(t) ==
  /\ pc[t] = "t_take"
  /\ lock' = Free
  /\ IF process # 0
       THEN /\ StopSome(t, process)
            /\ process' = IF procs'[process].sig = "ok" THEN 0 ELSE process
       ELSE /\ StopEmpty(t)
            /\ process' = 0
  /\ stopped' = [u \in Tasks |-> stopped[u] \/ pc[u] \in StartPcs]
  /\ started' = FALSE
  /\ UNCHANGED <<pump, windows>>

\* process.take(), then kill() on what was taken.
StopTake(t) ==
  /\ pc[t] = "t_take"
  /\ lock' = Free
  /\ process' = 0
  /\ IF process # 0 THEN StopSome(t, process) ELSE StopEmpty(t)
  /\ stopped' = [u \in Tasks |-> stopped[u] \/ pc[u] \in StartPcs]
  /\ started' = FALSE
  /\ UNCHANGED <<pump, windows>>

\* ---- check_backend_status ----------------------------------------------
\* CheckEmpty that reports the missing process as a failed status query.
CheckEmpty_Err(t) ==
  Return(t, ErrMsg("status", "Error checking backend status", 0),
         <<"error: Error checking backend status">>)

\* The slot is None: running is false, nothing is asked of the OS.
CheckEmpty(t) == Return(t, OkStatus("status", FALSE), <<>>)

\* CheckSome that answers "not running" when try_wait fails.
CheckSome_Swallow(t, c) ==
  \E o \in TryWait(c) :
    CASE o = "Running" ->
           Return(t, Polled(OkStatus("status", TRUE), c, o), <<>>)
      [] OTHER ->
           Return(t, Polled(OkStatus("status", FALSE), c, o),
                  <<"warn: Backend process has exited">>)

\* The slot is Some(c): the three arms of the match on c.try_wait().
CheckSome(t, c) ==
  \E o \in TryWait(c) :
    CASE o = "Exited" ->
           Return(t, Polled(OkStatus("status", FALSE), c, o),
                  <<"warn: Backend process has exited">>)
      [] o = "Running" ->
           Return(t, Polled(OkStatus("status", TRUE), c, o), <<>>)
      [] OTHER ->
           Return(t, Polled(ErrMsg("status", "Error checking backend status",
                                   0), c, o),
                  <<"error: Error checking backend status">>)

\* CheckPoll that empties the slot when it finds the child exited.
CheckPoll_Clear(t) ==
  /\ pc[t] = "c_poll"
  /\ lock' = Free
  /\ IF process # 0 THEN CheckSome(t, process) ELSE CheckEmpty(t)
  /\ process' = IF process # 0 /\ ret'.tag = "Ok" /\ ~ret'.running
                  THEN 0 ELSE process
  /\ UNCHANGED <<procs, pump, windows, stopped, started>>

CheckPoll(t) ==
  /\ pc[t] = "c_poll"
  /\ lock' = Free
  /\ IF process # 0 THEN CheckSome(t, process) ELSE CheckEmpty(t)
  /\ UNCHANGED <<process, procs, pump, windows, stopped,
                 started>>

\* ---- the reader tasks: text ---------------------------------------------
\* A String is a sequence of one-character strings.  The letters below are
\* the ones of the five keywords; every other character has no case.
LowerCase == <<"a", "c", "e", "g", "i", "l", "n", "o", "p", "r", "t", "w", "x">>
UpperCase == <<"A", "C", "E", "G", "I", "L", "N", "O", "P", "R", "T", "W", "X">>

\* char::is_whitespace, for the characters used here.
WhiteSpace == {" ", "\t"}

\* char::to_uppercase
ToUpperChar(ch) ==
  IF \E i \in DOMAIN LowerCase : LowerCase[i] = ch
    THEN UpperCase[CHOOSE i \in DOMAIN LowerCase : LowerCase[i] = ch]
    ELSE ch

\* char::to_lowercase
ToLowerChar(ch) ==
  IF \E i \in DOMAIN UpperCase : UpperCase[i] = ch
    THEN LowerCase[CHOOSE i \in DOMAIN UpperCase : UpperCase[i] = ch]
    ELSE ch

\* str::to_uppercase
ToUpperCase(str) == [i \in 1..Len(str) |-> ToUpperChar(str[i])]

\* str::contains(pat): pat occurs in str as a contiguous run.
Contains(str, pat) ==
  \E i \in 1..(Len(str) - Len(pat) + 1) :
    SubSeq(str, i, i + Len(pat) - 1) = pat

\* str::trim: the whitespace at both ends is cut off.
RECURSIVE TrimStart(_)
TrimStart(str) ==
  IF str # <<>> /\ Head(str) \in WhiteSpace THEN TrimStart(Tail(str)) ELSE str

RECURSIVE TrimEnd(_)
TrimEnd(str) ==
  IF str # <<>> /\ str[Len(str)] \in WhiteSpace
    THEN TrimEnd(SubSeq(str, 1, Len(str) - 1))
    ELSE str

Trim(str) == TrimEnd(TrimStart(str))

\* The string literals of the stderr closure.
ERROR == <<"E", "R", "R", "O", "R">>
CRITICAL == <<"C", "R", "I", "T", "I", "C", "A", "L">>
EXCEPTION == <<"E", "X", "C", "E", "P", "T", "I", "O", "N">>
WARNING == <<"W", "A", "R", "N", "I", "N", "G">>
WARN == <<"W", "A", "R", "N">>

\* Severity with the two tests in the other order.
Severity_WarnFirst(trimmed) ==
  LET upper == ToUpperCase(trimmed) IN
    IF Contains(upper, WARNING) \/ Contains(upper, WARN)
      THEN "warn"
      ELSE IF \/ Contains(upper, ERROR)
              \/ Contains(upper, CRITICAL)
              \/ Contains(upper, EXCEPTION)
             THEN "error"
             ELSE "info"

\* The if / else if / else of the stderr closure over `upper`.
Severity(trimmed) ==
  LET upper == ToUpperCase(trimmed) IN
    IF \/ Contains(upper, ERROR)
       \/ Contains(upper, CRITICAL)
       \/ Contains(upper, EXCEPTION)
      THEN "error"
      ELSE IF Contains(upper, WARNING) \/ Contains(upper, WARN)
             THEN "warn"
             ELSE "info"

\* A log record: log::error!, log::warn! or log::info! with its text.
Record(sev, text) == [sev |-> sev, text |-> text]

\* "[Backend] {}" with the trimmed line.
BackendText(trimmed) == <<"[Backend] ">> \o trimmed

\* The stdout closure with the severities of the stderr closure.
StdoutRecords_Classified(line) ==
  LET trimmed == Trim(line) IN
    IF trimmed # <<>>
      THEN <<Record(Severity(trimmed), BackendText(trimmed))>>
      ELSE <<>>

\* What the stdout closure logs for Ok(line).
StdoutRecords(line) ==
  LET trimmed == Trim(line) IN
    IF trimmed # <<>> THEN <<Record("info", BackendText(trimmed))>> ELSE <<>>

\* What the stderr closure logs for Ok(line).
StderrRecords(line) ==
  LET trimmed == Trim(line) IN
    IF trimmed # <<>>
      THEN <<Record(Severity(trimmed), BackendText(trimmed))>>
      ELSE <<>>

\* What either closure logs for Err(e).
ReadErrorRecord(s) ==
  Record("error", <<IF s = "stdout" THEN "Error reading backend stdout"
                                    ELSE "Error reading backend stderr">>)

\* ---- the environment ---------------------------------------------------
\* A running child ends on its own.
ChildExit(c) ==
  /\ procs[c].st = "running"
  /\ \E code \in ExitCodes :
       procs' = [procs EXCEPT ![c] = [@ EXCEPT !.st = "exited", !.code = code]]
  /\ Silent(<<>>)
  /\ UNCHANGED <<process, lock, pc, child, pump, windows,
                 stopped, started>>

Next ==
  \/ OrchProbe
  \/ OrchStart
  \/ \E t \in Tasks : CallStart(t)
  \/ \E t \in Tasks : CallStop(t)
  \/ \E t \in Tasks : CallStatus(t)
  \/ \E t \in Tasks : StartCheck(t)
  \/ \E t \in Tasks : StartSpawn(t)
  \/ \E t \in Tasks : StartLock2(t)
  \/ \E t \in Tasks : StartStore(t)
  \/ \E t \in Tasks : StartLock3(t)
  \/ \E t \in Tasks : StartPoll(t)
  \/ \E t \in Tasks : StopTake(t)
  \/ \E t \in Tasks : CheckPoll(t)
  \/ \E c \in Children : ChildExit(c)

Spec == Init /\ [][Next]_vars

\* ---- the reader tasks: one loop -----------------------------------------
\* Bound: how many items a reader yields ahead of the EOF.
MaxLines == 2

\* An item of reader.lines(): Ok(line) or Err(e).
OkLine(line) == [ok |-> TRUE, line |-> line]
ReadErr == [ok |-> FALSE, line |-> <<>>]

\* The lines that are put together into sequences: an empty one, one of
\* whitespace only, one with a keyword, one to trim, one in lower case.
ShortLines ==
  {<<>>, <<" ", "\t">>, <<"E", "R", "R", "O", "R">>, <<" ", "o", "n", "e", " ">>, <<"w", "a", "r", "n">>}

Items == {OkLine(line) : line \in ShortLines} \cup {ReadErr}

\* The spellings of base with the letters at the positions in `at` in
\* either case.
CaseVariants(base, at) ==
  {[i \in 1..Len(base) |-> IF i \in up THEN ToUpperChar(base[i])
                                        ELSE ToLowerChar(base[i])] :
     up \in SUBSET at}

\* The lines that are read one at a time: the keywords alone and together
\* in many spellings, and lines that only come close to a keyword.
CaseLines ==
  CaseVariants(<<"e", "r", "r", "o", "r">>, 1..5)
    \cup CaseVariants(<<"w", "a", "r", "n">>, 1..4)
    \cup CaseVariants(<<"w", "a", "r", "n", " ", "e", "r", "r", "o", "r">>, {1, 4, 6, 10})
    \cup CaseVariants(<<"e", "x", "c", "e", "p", "t", "i", "o", "n", " ", "w", "a", "r", "n">>, {1, 2, 15})
    \cup CaseVariants(<<"c", "r", "i", "t", "i", "c", "a", "l">>, {1, 2, 8})
    \cup CaseVariants(<<"e", "x", "c", "e", "p", "t", "i", "o", "n">>, {1, 2, 9})
    \cup CaseVariants(<<"w", "a", "r", "n", "i", "n", "g">>, {1, 5, 7})
    \cup CaseVariants(<<"e", "r", "r", "o", " ", "r">>, {1, 6})
    \cup CaseVariants(<<"w", "a", "r", " ", "n">>, {1, 5})
    \cup CaseVariants(<<" ", "o", "n", "e", "\t">>, {1, 3})

\* What a reader can yield: any short sequence of items, or one line.
Inputs ==
  UNION {[1..n -> Items] : n \in 0..MaxLines}
    \cup {<<OkLine(line)>> : line \in CaseLines}

\* tokio::task::spawn_blocking(move || { .. }): the loop is about to start.
ReaderInit ==
  /\ Managed
  /\ stream \in Streams
  /\ reader \in Inputs
  /\ nread = 0
  /\ records = <<>>
  /\ reading = TRUE

\* One turn of `for line in reader.lines()` in the stdout task: the
\* iterator ends at EOF, Err(e) is logged and breaks, Ok(line) is logged
\* at info level when it is not blank.
StdoutPump ==
  /\ stream = "stdout" /\ reading
  /\ IF nread = Len(reader)
       THEN /\ reading' = FALSE
            /\ UNCHANGED <<nread, records>>
       ELSE LET item == reader[nread + 1] IN
              /\ nread' = nread + 1
              /\ IF item.ok
                   THEN /\ records' = records \o StdoutRecords(item.line)
                        /\ reading' = TRUE
                   ELSE /\ records' = Append(records, ReadErrorRecord("stdout"))
                        /\ reading' = FALSE
  /\ UNCHANGED <<stream, reader>>
  /\ UNCHANGED vars

\* One turn of the same loop in the stderr task, which classifies.
StderrPump ==
  /\ stream = "stderr" /\ reading
  /\ IF nread = Len(reader)
       THEN /\ reading' = FALSE
            /\ UNCHANGED <<nread, records>>
       ELSE LET item == reader[nread + 1] IN
              /\ nread' = nread + 1
              /\ IF item.ok
                   THEN /\ records' = records \o StderrRecords(item.line)
                        /\ reading' = TRUE
                   ELSE /\ records' = Append(records, ReadErrorRecord("stderr"))
                        /\ reading' = FALSE
  /\ UNCHANGED <<stream, reader>>
  /\ UNCHANGED vars

ReaderNext == StdoutPump \/ StderrPump

ReaderSpec == ReaderInit /\ [][ReaderNext]_<<vars, pvars>>

\* ---- the reader tasks beside the commands -------------------------------
\* The line a record makes in the log, by its level.
LogLine(record) ==
  CASE record.sev = "error" -> "error: [Backend]"
    [] record.sev = "warn" -> "warn: [Backend]"
    [] OTHER -> "info: [Backend]"

LogLines(recs) == [i \in 1..Len(recs) |-> LogLine(recs[i])]

\* The line of log::error!("Error reading backend stdout: {}", e) and of
\* its stderr twin.
ReadErrorLine(s) ==
  IF s = "stdout" THEN "error: Error reading backend stdout"
                  ELSE "error: Error reading backend stderr"

\* The reader task of stream s of child c takes Ok(line) from its reader
\* and logs it; lines still in the pipe are read after the child is gone.
PumpLine(c, s) ==
  /\ s \in pump[c]
  /\ \E line \in ShortLines :
       Silent(LogLines(IF s = "stdout" THEN StdoutRecords(line)
                                       ELSE StderrRecords(line)))
  /\ UNCHANGED <<process, lock, pc, child, procs, pump, windows, stopped,
                 started>>

\* PumpEof of a reader that never sees the EOF on stderr.
PumpEof_StderrStuck(c, s) ==
  /\ s \in pump[c]
  /\ s = "stdout"
  /\ procs[c].st = "exited"
  /\ pump' = [pump EXCEPT ![c] = @ \ {s}]
  /\ Silent(<<>>)
  /\ UNCHANGED <<process, lock, pc, child, procs, windows, stopped, started>>

\* The pipe is closed, the child being gone: reader.lines() ends and the
\* closure returns.
PumpEof(c, s) ==
  /\ s \in pump[c]
  /\ procs[c].st = "exited"
  /\ pump' = [pump EXCEPT ![c] = @ \ {s}]
  /\ Silent(<<>>)
  /\ UNCHANGED <<process, lock, pc, child, procs, windows, stopped, started>>

\* PumpReadError without the break: the loop goes on to the next item.
PumpReadError_NoBreak(c, s) ==
  /\ s \in pump[c]
  /\ Silent(<<ReadErrorLine(s)>>)
  /\ UNCHANGED <<process, lock, pc, child, procs, pump, windows, stopped,
                 started>>

\* The reader yields Err(e): one log::error! and break.
PumpReadError(c, s) ==
  /\ s \in pump[c]
  /\ pump' = [pump EXCEPT ![c] = @ \ {s}]
  /\ Silent(<<ReadErrorLine(s)>>)
  /\ UNCHANGED <<process, lock, pc, child, procs, windows, stopped, started>>

\* The commands of one UI slot, the children and their reader tasks.
PumpTasks == {"ui1"}

PumpNext ==
  \/ \E t \in PumpTasks : CallStart(t)
  \/ \E t \in PumpTasks : CallStop(t)
  \/ \E t \in PumpTasks : CallStatus(t)
  \/ \E t \in PumpTasks : StartCheck(t)
  \/ \E t \in PumpTasks : StartSpawn(t)
  \/ \E t \in PumpTasks : StartLock2(t)
  \/ \E t \in PumpTasks : StartStore(t)
  \/ \E t \in PumpTasks : StartLock3(t)
  \/ \E t \in PumpTasks : StartPoll(t)
  \/ \E t \in PumpTasks : StopTake(t)
  \/ \E t \in PumpTasks : CheckPoll(t)
  \/ \E c \in Children : ChildExit(c)
  \/ \E c \in Children, s \in Streams : PumpLine(c, s)
  \/ \E c \in Children, s \in Streams : PumpEof(c, s)
  \/ \E c \in Children, s \in Streams : PumpReadError(c, s)

PumpSpec == Init /\ [][PumpNext]_vars

\* A blocking thread that can read the EOF does read it in the end.
FairPumpSpec ==
  /\ PumpSpec
  /\ \A c \in Children, s \in Streams : WF_vars(PumpEof(c, s))

\* ---- step predicates used by the properties ----------------------------
\* Task t runs the block at position p in this step.
Runs(t, p) == pc[t] = p /\ pc'[t] # p

\* Task t returns to its caller in this step.
Returns(t) == pc'[t] \in {"idle", "done"} /\ pc[t] \notin {"idle", "done"}

\* The latest return came from the early return of start_backend.
ShortCircuited ==
  /\ ret.op = "start" /\ ret.tag = "Ok" /\ ret.some /\ ret.polled = 0

\* ---- C1 ------------------------------------------------------------------
\* C1: of the start calls that are under way together, none of which has
\* seen a stop since it began, at most one has spawned a child.
C1_NoDoubleSpawn ==
  \A t1 \in Tasks, t2 \in Tasks :
    (t1 # t2 /\ pc[t1] \in StartPcs /\ pc[t2] \in StartPcs
       /\ ~stopped[t1] /\ ~stopped[t2])
    => ~(child[t1] # 0 /\ child[t2] # 0)

\* ---- C2 ------------------------------------------------------------------
\* C2 as stated: whenever the slot goes from Some(c) to None, c has been
\* terminated.
C2_ClearedOnlyWhenTerminated ==
  [][(process # 0 /\ process' = 0) => procs'[process].st = "exited"]_vars

\* C2 amended: the slot goes from Some(c) to None only in the block of
\* stop_backend, which sends c a kill in the same critical section; c is
\* terminated afterwards when the OS accepted the kill, and may still be
\* running when the OS refused it.
C2_ClearedOnlyByStop ==
  [][(process # 0 /\ process' = 0)
       => /\ \E t \in Tasks : Runs(t, "t_take")
          /\ procs'[process].sig # "no"
          /\ (procs'[process].sig = "ok" => procs'[process].st = "exited")]_vars

\* A stop has just emptied the slot by killing the child it held.
C2_Witness ==
  /\ process = 0
  /\ ret = Found(OkUnit)
  /\ \E c \in Children : procs[c].sig = "ok" /\ procs[c].st = "exited"

\* ---- C3 ------------------------------------------------------------------
\* C3: a start call whose first block runs after another start has returned
\* Ok, with no stop since, returns Ok {running: true, port: 8000} from that
\* block, spawns nothing and leaves the slot holding the same child.
C3_SecondStartSpawnsNothing ==
  [][\A t \in Tasks :
       (Runs(t, "s_check") /\ started)
       => /\ Returns(t)
          /\ ret'.tag = "Ok" /\ ret'.running /\ ret'.port = PORT
          /\ process # 0 /\ process' = process
          /\ procs' = procs /\ pump' = pump]_vars

\* A second start has just returned from the early return, and one child
\* has been spawned in all.
C3_Witness ==
  /\ ShortCircuited /\ ret.again
  /\ ret.running /\ ret.port = 8000
  /\ Cardinality(Spawned) = 1
  /\ process = 1

\* ---- C4 ------------------------------------------------------------------
\* C4: when the child a start call spawned has exited by the time of the
\* liveness check, and no stop ran in between, the call returns an Err that
\* carries the exit status and the slot still holds that child.
C4_EarlyExitIsError ==
  [][\A t \in Tasks :
       (Runs(t, "s_poll") /\ child[t] # 0 /\ procs[child[t]].st = "exited"
          /\ ~stopped[t])
       => /\ ret'.tag = "Err"
          /\ ret'.status = procs[child[t]].code
          /\ process' = child[t]]_vars

\* ---- C5 ------------------------------------------------------------------
\* C5: a start call that finds a dead child in the slot returns
\* Ok {running: true, port: 8000} and spawns nothing; and the slot, once
\* Some, becomes None only in the block of stop_backend, so that only a
\* stop lets a later start get past the check.
C5_StaleReferenceBlocksRespawn ==
  [][/\ \A t \in Tasks :
          (Runs(t, "s_check") /\ process # 0 /\ procs[process].st = "exited")
          => /\ Returns(t)
             /\ ret'.tag = "Ok" /\ ret'.running /\ ret'.port = PORT
             /\ process' = process
             /\ procs' = procs /\ pump' = pump
     /\ (process # 0 /\ process' = 0) => \E t \in Tasks : Runs(t, "t_take")
    ]_vars

\* A start has just returned "running" over a child that died on its own.
C5_Witness ==
  /\ ShortCircuited
  /\ process # 0
  /\ procs[process].st = "exited" /\ procs[process].sig = "no"

\* ---- C6 ------------------------------------------------------------------
\* C6: when stop finds a child and the OS refuses the kill, stop returns an
\* Err and the slot is empty afterwards; a child that was sent a kill is
\* never in the slot again and is never signalled again.
C6_FailedKillClearsSlot ==
  /\ [][\A t \in Tasks :
          (Runs(t, "t_take") /\ process # 0
             /\ procs'[process].sig = "refused")
          => /\ ret'.tag = "Err" /\ ret'.op = "stop"
             /\ process' = 0]_vars
  /\ [][\A c \in Children :
          procs[c].sig # "no" => procs'[c].sig = procs[c].sig]_vars
  /\ [](\A c \in Children : procs[c].sig # "no" => process # c)

\* A stop has just failed to kill the child, which runs on outside the slot.
C6_Witness ==
  /\ ret = Found(ErrMsg("stop", "Failed to stop backend", 0))
  /\ process = 0
  /\ \E c \in Children : procs[c].sig = "refused" /\ procs[c].st = "running"

\* ---- C7 ------------------------------------------------------------------
\* C7: a start call whose spawn fails returns an Err, does not write the
\* slot (an empty slot stays empty), creates no process and attaches no
\* reader task; and the slot goes from None to Some only in the store block
\* of a call that did spawn the child it stores.
C7_SpawnFailureLeavesSlot ==
  [][/\ \A t \in Tasks :
          (Runs(t, "s_spawn") /\ ret'.msg = "Failed to start backend")
          => /\ ret'.tag = "Err" /\ Returns(t)
             /\ process' = process
             /\ procs' = procs /\ pump' = pump
             /\ child[t] = 0 /\ child'[t] = 0
     /\ (process = 0 /\ process' # 0)
          => \E t \in Tasks : /\ Runs(t, "s_store")
                              /\ process' = child[t]
                              /\ procs[child[t]].st # "unborn"
                              /\ pump[child[t]] = Streams
    ]_vars

\* A spawn has just failed with the slot empty and nothing running.
C7_Witness ==
  /\ ret = ErrMsg("start", "Failed to start backend", 0)
  /\ process = 0
  /\ Spawned = {}
  /\ \A c \in Children : pump[c] = {}

\* ---- C8 ------------------------------------------------------------------
\* C8: stop on an empty slot returns Ok(()), sends no kill and leaves the
\* slot empty.
C8_StopOnEmptyIsNoop ==
  [][\A t \in Tasks :
       (Runs(t, "t_take") /\ process = 0)
       => /\ ret' = OkUnit
          /\ process' = 0
          /\ procs' = procs]_vars

\* A stop has just returned as a no-op after an earlier stop killed a child.
C8_Witness ==
  /\ ret = OkUnit
  /\ process = 0
  /\ \E c \in Children : procs[c].sig = "ok"

\* ---- C9 ------------------------------------------------------------------
\* C9: the block of check_backend_status leaves the slot as it found it, in
\* each of its four outcomes.
C9_StatusKeepsSlot ==
  [][\A t \in Tasks : Runs(t, "c_poll") => process' = process]_vars

\* A status call has just reported an exited child, which stays in the slot.
C9_Witness ==
  /\ ret.op = "status" /\ ret.tag = "Ok" /\ ~ret.running
  /\ ret.polled # 0 /\ process = ret.polled
  /\ procs[process].st = "exited"

\* ---- C10 -----------------------------------------------------------------
\* C10: check_backend_status on an empty slot returns
\* Ok {running: false, port: 8000}, never an Err, and calls try_wait on
\* nothing.
C10_StatusOnEmpty ==
  [][\A t \in Tasks :
       (Runs(t, "c_poll") /\ process = 0)
       => /\ ret'.tag = "Ok" /\ ~ret'.running /\ ret'.port = PORT
          /\ ret'.polled = 0 /\ ~ret'.some
          /\ logged' = <<>>]_vars

\* A status call has just answered "not running" for an empty slot.
C10_Witness ==
  /\ ret = OkStatus("status", FALSE)
  /\ process = 0

\* ---- C11 -----------------------------------------------------------------
\* Positions at which a task holds the MutexGuard: the five blocks.
HoldPcs == {"s_check", "s_store", "s_poll", "t_take", "c_poll"}

\* C11: the mutex is held in the five blocks only and never by a start call
\* that is in its 2 s sleep; whoever holds it can run its block and release
\* it at once; and while a start sleeps with the mutex free, a stop or a
\* status on an idle UI slot can take the mutex, after which it can run its
\* block and return with the start still asleep.
C11_LockFreeDuringGrace ==
  /\ \A t \in Tasks : pc[t] = "s_sleep" => lock # t
  /\ \A t \in Tasks : lock = t <=> pc[t] \in HoldPcs
  /\ \A t \in Tasks :
       lock = t => ENABLED (\/ StartCheck(t) \/ StartStore(t) \/ StartPoll(t)
                            \/ StopTake(t) \/ CheckPoll(t))
  /\ \A t \in Tasks, u \in Tasks \ {Orch} :
       (pc[t] = "s_sleep" /\ lock = Free /\ pc[u] = "idle")
       => ENABLED CallStop(u) /\ ENABLED CallStatus(u)
  /\ \A t \in Tasks, u \in Tasks :
       (pc[t] = "s_sleep" /\ lock = u /\ pc[u] \in {"t_take", "c_poll"})
       => ENABLED (/\ StopTake(u) \/ CheckPoll(u)
                   /\ pc'[u] = "idle" /\ pc'[t] = "s_sleep" /\ lock' = Free)

\* A stop has just killed the child a start stored, and that start is
\* still in its sleep.
C11_Witness ==
  /\ ret = Found(OkUnit)
  /\ \E t \in Tasks : /\ pc[t] = "s_sleep"
                      /\ child[t] # 0
                      /\ procs[child[t]].sig = "ok"
  /\ process = 0 /\ lock = Free

\* ---- C12 -----------------------------------------------------------------
\* C12: when check_backend_status finds a child in the slot and try_wait on
\* it fails, the call logs the failure and returns an Err, never an
\* Ok {running: ..}; a status call that did not get that failure returns
\* no Err.
C12_StatusPollErrorIsErr ==
  [][\A t \in Tasks :
       Runs(t, "c_poll")
       => /\ ret'.op = "status" /\ Returns(t)
          /\ (ret'.poll = "Err")
               => /\ process # 0 /\ ret'.polled = process
                  /\ ret'.tag = "Err"
                  /\ ret'.msg = "Error checking backend status"
                  /\ logged' = <<"error: Error checking backend status">>
          /\ (ret'.tag = "Err") => ret'.poll = "Err"]_vars

\* A status call has just failed on the child in the slot, which runs.
C12_Witness ==
  /\ ret.op = "status" /\ ret.tag = "Err" /\ ret.poll = "Err"
  /\ process # 0 /\ ret.polled = process
  /\ procs[process].st = "running"

\* ---- C13 -----------------------------------------------------------------
\* Two characters are the same letter, whatever their case.
SameLetter(x, y) == ToLowerChar(x) = ToLowerChar(y)

\* Two lines differ in the case of their letters only.
CaseVariant(l1, l2) ==
  /\ Len(l1) = Len(l2)
  /\ \A i \in 1..Len(l1) : SameLetter(l1[i], l2[i])

\* Some word of `words` occurs in the line, in whatever case.
HasWord(line, words) ==
  \E w \in words :
    \E i \in 1..(Len(line) - Len(w) + 1) :
      \A j \in 1..Len(w) : SameLetter(line[i + j - 1], w[j])

\* The line has a character that is not whitespace.
NonBlank(line) == \E i \in 1..Len(line) : line[i] \notin WhiteSpace

\* C13: the record the stderr task writes for a line is at error level when
\* the line has ERROR, CRITICAL or EXCEPTION in any case, also when it has
\* WARNING or WARN as well; else at warn level when it has WARNING or WARN;
\* else at info level; and every other spelling of the line in upper and
\* lower case gets the same level.
C13_FirstMatchWins ==
  (stream = "stderr" /\ nread > 0 /\ reader[nread].ok
     /\ NonBlank(reader[nread].line))
  => /\ records # <<>>
     /\ LET line == reader[nread].line
            sev == records[Len(records)].sev
            isError == HasWord(line, {ERROR, CRITICAL, EXCEPTION})
            isWarn == HasWord(line, {WARNING, WARN})
        IN /\ isError => sev = "error"
           /\ (~isError /\ isWarn) => sev = "warn"
           /\ (~isError /\ ~isWarn) => sev = "info"
           /\ \A other \in CaseLines \cup ShortLines :
                CaseVariant(other, line)
                => StderrRecords(other)[1].sev = sev

\* The stderr task has just logged at error level a line that has both an
\* error word and a warn word, neither of them in upper case.
C13_Witness ==
  /\ stream = "stderr" /\ nread = 1 /\ reader[1].ok
  /\ HasWord(reader[1].line, {ERROR}) /\ ~Contains(reader[1].line, ERROR)
  /\ HasWord(reader[1].line, {WARN}) /\ ~Contains(reader[1].line, WARN)
  /\ Len(records) = 1 /\ records[1].sev = "error"

\* ---- C14 -----------------------------------------------------------------
\* C14: when start_backend resolves the executable, resources/backend.exe
\* is taken when it exists, whether backend.exe exists or not; backend.exe
\* is taken when it alone exists; and when neither exists the call returns
\* the "not found" Err for the path backend.exe, creates no process,
\* attaches no reader task and does not write the slot.  The "not found"
\* Err is returned in that case only, and a process is created only from
\* a path that exists.
C14_ResolutionOrder ==
  [][\A t \in Tasks :
       (Runs(t, "s_spawn") /\ backend_exe' # NoExe)
       => LET exe == backend_exe' IN
            /\ exe.resources => exe.path = "resources"
            /\ (~exe.resources /\ exe.fallback) => exe.path = "fallback"
            /\ (~exe.resources /\ ~exe.fallback)
                 => /\ exe.path = "fallback"
                    /\ Returns(t) /\ ret'.tag = "Err"
                    /\ ret'.msg = "Backend executable not found"
                    /\ procs' = procs /\ pump' = pump
                    /\ process' = process
                    /\ child'[t] = 0
            /\ (ret'.msg = "Backend executable not found")
                 => ~exe.resources /\ ~exe.fallback
            /\ (procs' # procs) => exe.resources \/ exe.fallback]_vars

\* A start has just spawned from resources/backend.exe with backend.exe
\* there as well.
C14_Witness ==
  /\ backend_exe = Resolved(TRUE, TRUE)
  /\ backend_exe.path = "resources"
  /\ \E t \in Tasks : pc[t] = "s_lock2" /\ child[t] # 0

\* ---- C15 -----------------------------------------------------------------
\* C15: the auto-start task never goes back to its beginning and never
\* leaves its end; it enters start_backend from its one call site only,
\* which it reaches only from the probe and only when the probe found one
\* of the two candidates; a probe that found none ends the task with one
\* warning and changes nothing else; an Err of its start_backend is logged
\* at error level and ends the task, with no UI slot moved and the mutex
\* not left with the task; and once the task has ended, an idle UI slot can call any command
\* whenever the mutex is free.
C15_AutoStartOnce ==
  /\ [][/\ pc'[Orch] = "o_sleep" => pc[Orch] = "o_sleep"
        /\ pc[Orch] = "done" => pc'[Orch] = "done"
        /\ (pc[Orch] # "o_call" /\ pc'[Orch] = "o_call")
             => /\ pc[Orch] = "o_sleep"
                /\ backend_exe'.resources \/ backend_exe'.fallback
                /\ backend_exe'.path \in {"resources", "fallback"}
        /\ (pc[Orch] # "s_check" /\ pc'[Orch] = "s_check")
             => pc[Orch] = "o_call"
        /\ pc[Orch] \in StartPcs => pc'[Orch] \in StartPcs \cup {"done"}
        /\ (Runs(Orch, "o_sleep") /\ backend_exe' = NoExe)
             => /\ pc'[Orch] = "done"
                /\ logged' = <<"warn: Backend executable not found">>
                /\ UNCHANGED <<process, lock, child, procs, pump>>
        /\ (Returns(Orch) /\ ret'.tag = "Err")
             => /\ pc'[Orch] = "done"
                /\ logged' # <<>>
                /\ logged'[Len(logged')] = "error: Failed to auto-start backend"
                /\ \A u \in Tasks \ {Orch} : pc'[u] = pc[u]
                /\ lock' # Orch
       ]_vars
  /\ [](\A u \in Tasks \ {Orch} :
          (pc[Orch] = "done" /\ pc[u] = "idle" /\ lock = Free)
          => ENABLED CallStart(u) /\ ENABLED CallStop(u)
               /\ ENABLED CallStatus(u))

\* The auto-start task has just ended on an Err of its start_backend.
C15_Witness ==
  /\ pc[Orch] = "done"
  /\ ret.op = "start" /\ ret.tag = "Err"
  /\ logged # <<>>
  /\ logged[Len(logged)] = "error: Failed to auto-start backend"

\* ---- C16 -----------------------------------------------------------------
\* The lines only a reader task writes to the log.
PumpLogLines ==
  {"error: [Backend]", "warn: [Backend]", "info: [Backend]",
   ReadErrorLine("stdout"), ReadErrorLine("stderr")}

\* The reader task of stream s of child c takes a step.
PumpStep(c, s) == PumpLine(c, s) \/ PumpEof(c, s) \/ PumpReadError(c, s)

\* C16: once a child is gone, killed or ended on its own, each of its
\* reader tasks that still runs ends; the block of stop_backend returns at
\* once and leaves every reader task as it is; a reader task that has ended
\* stays ended and takes no step; and with all reader tasks ended no step
\* writes a reader's line to the log.
C16_PumpsEnd ==
  /\ \A c \in Children, s \in Streams :
       (procs[c].st = "exited" /\ s \in pump[c]) ~> (s \notin pump[c])
  /\ [][/\ \A t \in Tasks :
             Runs(t, "t_take") => Returns(t) /\ pump' = pump
        /\ \A c \in Spawned, s \in Streams :
             s \notin pump[c] => s \notin pump'[c] /\ ~PumpStep(c, s)
        /\ (\A c \in Children : pump[c] = {})
             => \A i \in 1..Len(logged') : logged'[i] \notin PumpLogLines
       ]_vars

\* Both reader tasks of a child killed by stop_backend have ended, with no
\* read error.
C16_Witness ==
  /\ \E c \in Children : /\ procs[c].sig = "ok" /\ procs[c].st = "exited"
                         /\ pump[c] = {}
  /\ logged = <<>> /\ ret = NoRet

\* ---- C17 -----------------------------------------------------------------
\* C17: a step that logs a read error of stream s logs that one record and
\* nothing else, at error level; it ends the reader task of s of one child
\* and no other reader task, so that the task of the other stream of that
\* child stays as it was; it returns nothing to any caller and leaves the
\* slot, the mutex, every command and every child as they were.  The task
\* it ended takes no further step, so reads no line and logs no record.
C17_ReadErrorEndsOnePump ==
  [][/\ \A s \in Streams :
          (ReadErrorLine(s) \in {logged'[i] : i \in 1..Len(logged')})
          => /\ logged' = <<ReadErrorLine(s)>>
             /\ \E c \in Spawned :
                  /\ s \in pump[c]
                  /\ pump' = [pump EXCEPT ![c] = @ \ {s}]
                  /\ s \notin pump'[c]
                  /\ pump'[c] \ {s} = pump[c] \ {s}
             /\ ret' = NoRet
             /\ UNCHANGED <<process, lock, pc, child, procs, stopped, started>>
     /\ \A c \in Spawned, s \in Streams :
          s \notin pump[c] => ~PumpStep(c, s)
    ]_vars

\* The stdout task of the child in the slot has just ended on a read error;
\* its stderr task and the child run on.
C17_Witness ==
  /\ logged = <<ReadErrorLine("stdout")>>
  /\ process # 0
  /\ pump[process] = {"stderr"}
  /\ procs[process].st = "running"

\* ---- C18 -----------------------------------------------------------------
\* The records the stdout task owes for the items it has taken: one at
\* info level for every line that is not blank, in the order of the lines,
\* and the one of a read error.
RECURSIVE StdoutOwed(_)
StdoutOwed(items) ==
  IF items = <<>>
    THEN <<>>
    ELSE LET item == Head(items) IN
           (IF ~item.ok
              THEN <<ReadErrorRecord("stdout")>>
              ELSE IF NonBlank(item.line)
                     THEN <<Record("info", BackendText(Trim(item.line)))>>
                     ELSE <<>>)
             \o StdoutOwed(Tail(items))

\* How many of the items are a line that is not blank, or a read error.
Logworthy(items) ==
  Cardinality({i \in 1..Len(items) :
                 ~items[i].ok \/ NonBlank(items[i].line)})

\* C18: at every point of the loop the stdout task has written exactly the
\* records owed for the items taken so far: one per line that is not blank,
\* in stream order, each at info level whatever the line says, and none
\* for an empty or whitespace-only line; the stderr task too has written
\* as many records as it took lines that are not blank; and a loop that
\* met no read error ends only when it has taken every line.
C18_StdoutOneInfoPerLine ==
  LET taken == SubSeq(reader, 1, nread) IN
    /\ stream = "stdout" => records = StdoutOwed(taken)
    /\ stream = "stdout"
         => \A i \in 1..Len(records) :
              records[i].sev = "info" \/ records[i] = ReadErrorRecord("stdout")
    /\ Len(records) = Logworthy(taken)
    /\ (~reading /\ \A i \in 1..nread : reader[i].ok) => nread = Len(reader)

\* The stdout task has ended after a blank line and a line that says
\* ERROR, with one info record for the second.
C18_Witness ==
  /\ stream = "stdout" /\ ~reading
  /\ nread = 2 /\ Len(reader) = 2
  /\ reader[1].ok /\ ~NonBlank(reader[1].line) /\ reader[1].line # <<>>
  /\ reader[2].ok /\ Contains(reader[2].line, ERROR)
  /\ records = <<Record("info", BackendText(ERROR))>>

\* ---- C19 -----------------------------------------------------------------
\* C19: whenever a start call that spawned a child returns
\* Ok {running: true} from its liveness check, that check found the slot
\* Some and try_wait on that child answered "still running".
C19_SuccessMeansPolledRunning ==
  [][\A t \in Tasks :
       (Runs(t, "s_poll") /\ child[t] # 0
          /\ ret'.tag = "Ok" /\ ret'.running)
       => /\ process # 0
          /\ ret'.polled = child[t]
          /\ ret'.poll = "Running"]_vars

\* ---- C20 -----------------------------------------------------------------
\* C20: every child that runs and was sent no kill is the one in the slot,
\* or is held by a start call that has spawned it and not yet stored it.
C20_NoOrphanedChild ==
  \A c \in Children :
    (procs[c].st = "running" /\ procs[c].sig = "no")
    => \/ process = c
       \/ \E t \in Tasks : child[t] = c /\ pc[t] \in {"s_lock2", "s_store"}

====
